---- MODULE Spec2Model ----
(***************************************************************************)
(* byexample: the pexpect-driven interpreter session (interpreter.py),     *)
(* the command line driver and plugin discovery (byexample.py) and the     *)
(* concern fan-out (concern.py).                                           *)
(*                                                                         *)
(* Text is a sequence of characters.  One match of PS1_re is the single    *)
(* token PS1, a match of any_PS_re that is not a primary prompt is the     *)
(* token PS2, CR and LF are '\r' and '\n'.                                 *)
(***************************************************************************)
EXTENDS Integers, Sequences, FiniteSets, TLC

VARIABLES
    \* ---- PexepctMixin: one session
    pc,           \* where the driver is: new, expect_first, settle, get_output,
                  \* spawn_drop, idle, raised
    caller,       \* who called _expect_prompt: "spawn" or "exec"
    alive,        \* the child process is running
    any_PS_re,    \* "None" or "any": the constructor's any_PS_re
    last_output,  \* self.last_output: list of chunks
    buffer,       \* self.interpreter.buffer: child output read and not consumed
    before,       \* self.interpreter.before
    what,         \* index returned by the last expect()
    out,          \* value returned by the last _get_output()
    exc,          \* the exception that left the last call, or NoExc
    last_op,      \* the last operation that completed
    \* ---- history of the current call (not program state)
    held,         \* text that last_output already held when this call began
    seen,         \* unconsumed child output offered to the waits of this call
    late,         \* child output that arrived after the last wait of this call
    matches,      \* prompts consumed by this call
    waits,        \* expect() calls made by this call
    emitted,      \* number of child writes so far
    cmds,         \* number of _exec_and_wait calls so far
    \* ---- byexample.main and load_modules
    m_pc,         \* where main() is: load, loaded, setup, loop, done, raised
    m_exc,        \* the exception that left main(), or "none"
    units,        \* number of units iter_modules has yielded
    registry,     \* load_modules' registry: kind -> (identity -> instance)
    created,      \* history: class -> number of instances created of it
    selected,     \* args.languages
    allowed_languages,
    testfiles,    \* the files to run, in command line order
    cur,          \* index in testfiles of the next file
    dry,          \* args.dry
    fail_fast,    \* options['FAIL_FAST']
    exit_status,  \* main's exit_status; -1 before it is set
    extracted,    \* history: files given to finder.get_examples_from_file
    ran,          \* history: files given to runner.run, with their results
    disc,         \* history: per loaded unit, the classes instantiated from it
    \* ---- PexepctMixin.interact and set_cooked_mode
    py_major,     \* sys.version_info[0] of the Python that runs the code: 2 or 3
    tty,          \* the attributes of the child's terminal (tcgetattr's list)
    t_pc,         \* where interact() is: idle, try, session, finally, done
    saved,        \* interact's local attr
    t_exc,        \* the exception that left the last terminal call, or "none"
    entry_tty,    \* history: the attributes when interact() was entered
    forced,       \* history: set_cooked_mode(True) calls of this interact()
    t_call,       \* history: the last set_cooked_mode call made outside interact
    \* ---- ConcernComposite
    c_pc,         \* new, built, fanout, returned, raised
    c_exc,        \* the exception that left the last call, or "none"
    c_has_key,    \* the registry has the key 'concerns'
    c_map,        \* registry['concerns']: the observers it holds
    raisers,      \* the observers whose methods raise
    registered,   \* history: the observers in registration order
    concerns,     \* self.concerns
    c_method,     \* the lifecycle method called on the composite
    c_args,       \* its arguments
    c_i,          \* position of the for loop in self.concerns
    calls,        \* history: the observer methods invoked by this call
    c_ret,        \* what the call returned
    \* ---- the run of one file (ExampleRunner.run)
    r_pc,         \* new, between, running, interacting, ending, returned
    r_n,          \* number of examples of the file
    r_k,          \* index of the current example
    r_ff,         \* the run-level FAIL_FAST option
    r_opts,       \* the merged options of the current example
    r_inter,      \* interactive sessions of the current example
    r_failed,     \* an example failed
    r_user_aborted,
    r_crashed,
    r_result,     \* what run returned: <<failed, aborted_or_crashed>>
    events,       \* history: the calls made on the concern composite
    r_ffk         \* history: the examples started with the merged FAIL_FAST set

sessVars == <<pc, caller, alive, any_PS_re, last_output, buffer, before, what,
              out, exc, last_op, held, seen, late, matches, waits, emitted,
              cmds>>

mainVars == <<m_pc, m_exc, units, registry, created, selected,
              allowed_languages, testfiles, cur, dry, fail_fast, exit_status,
              extracted, ran, disc>>

termVars == <<py_major, tty, t_pc, saved, t_exc, entry_tty, forced, t_call>>

ccVars == <<c_pc, c_exc, c_has_key, c_map, raisers, registered, concerns,
            c_method, c_args, c_i, calls, c_ret>>

runVars == <<r_pc, r_n, r_k, r_ff, r_opts, r_inter, r_failed, r_user_aborted,
             r_crashed, r_result, events, r_ffk>>

vars == <<sessVars, mainVars, termVars, ccVars, runVars>>

\* what an action of one component leaves alone
notSess == <<mainVars, termVars, ccVars, runVars>>
notMain == <<sessVars, termVars, ccVars, runVars>>
notTerm == <<sessVars, mainVars, ccVars, runVars>>
notCC   == <<sessVars, mainVars, termVars, runVars>>
notRun  == <<sessVars, mainVars, termVars, ccVars>>

----------------------------------------------------------------------------
\* Bounds of the model
MaxEmit == 3        \* child writes in one session
MaxCmds == 2        \* _exec_and_wait calls in one session

MaxUnits == 2       \* units found under the search path
MaxFiles == 2       \* files on the command line
MaxExamples == 2    \* examples in one file
MaxInteract == 1    \* interactive sessions during one example
MaxObs == 2         \* observers registered
MaxForced == 2      \* input batches counted in one interact()
BulkLen == 350      \* length of one long write of the child (SpecTail)

\* Program constant: the slice [-1000:] of the stall message
TailLen == 1000

CR  == "CR"
LF  == "LF"
PS1 == "PS1"
PS2 == "PS2"
Chars == {"a", CR, LF, PS1, PS2}
AnyPS == {PS1, PS2}

NoExc == [type |-> "none", msg |-> <<>>]

----------------------------------------------------------------------------
\* Pure helpers

\* s[-n:]
LastChars(s, n) == IF Len(s) <= n THEN s ELSE SubSeq(s, Len(s) - n + 1, Len(s))

HasPS1(s) == \E i \in 1..Len(s) : s[i] = PS1

\* position of the leftmost match of PS1_re
FirstPS1(s) ==
    LET at == {i \in 1..Len(s) : s[i] = PS1}
    IN  CHOOSE i \in at : \A j \in at : i <= j

\* "".join(chunks)
RECURSIVE join(_)
join(chunks) == IF chunks = <<>> THEN <<>> ELSE Head(chunks) \o join(Tail(chunks))

\* re.sub(any_PS_re, '', out)
sub_any_PS(s) == SelectSeq(s, LAMBDA c : c \notin AnyPS)

\* re.sub(r'\r\n', r'\n', out): one left-to-right pass over the text; every
\* CR LF found in the original text becomes LF, the result is not rescanned.
sub_crlf(s) ==
    LET keep(i) == ~(s[i] = CR /\ i < Len(s) /\ s[i+1] = LF)
        idx == SelectSeq([i \in 1..Len(s) |-> i], keep)
    IN  [k \in 1..Len(idx) |-> s[idx[k]]]

\* mutant: the missing final terminator is not added
universal_new_lines_NoAppend(o) == sub_crlf(o)

universal_new_lines(o) ==
    LET o1 == sub_crlf(o)
    IN  IF o1 # <<>> /\ o1[Len(o1)] # LF THEN Append(o1, LF) ELSE o1

\* the value _get_output returns for the chunks held
get_output_value(chunks, ps) ==
    LET o  == join(chunks)
        o2 == IF ps # "None" THEN sub_any_PS(o) ELSE o
    IN  universal_new_lines(o2)

----------------------------------------------------------------------------
\* The session

InitSession ==
    /\ pc = "new"
    /\ caller = "none"
    /\ alive = FALSE
    /\ any_PS_re \in {"None", "any"}
    /\ last_output = <<>>
    /\ buffer = <<>>
    /\ before = <<>>
    /\ what = "none"
    /\ out = <<>>
    /\ exc = NoExc
    /\ last_op = "init"
    /\ held = <<>>
    /\ seen = <<>>
    /\ late = <<>>
    /\ matches = 0
    /\ waits = 0
    /\ emitted = 0
    /\ cmds = 0

InWait == pc \in {"expect_first", "settle"}

\* the child writes a chunk of text to its terminal
ChildEmit(chunk) ==
    /\ pc # "new"
    /\ alive
    /\ emitted < MaxEmit
    /\ emitted' = emitted + 1
    /\ buffer' = buffer \o chunk
    /\ seen' = IF InWait THEN seen \o chunk ELSE seen
    /\ late' = IF InWait THEN late ELSE late \o chunk
    /\ UNCHANGED <<pc, caller, alive, any_PS_re, last_output, before, what, out,
                   exc, last_op, held, matches, waits, cmds>>
    /\ UNCHANGED notSess

\* the child process ends
ChildExit ==
    /\ pc # "new"
    /\ alive
    /\ alive' = FALSE
    /\ UNCHANGED <<pc, caller, any_PS_re, last_output, buffer, before, what, out,
                   exc, last_op, held, seen, late, matches, waits, emitted, cmds>>
    /\ UNCHANGED notSess

\* _spawn_interpreter up to its wait for the first prompt
Spawn(wait_first_prompt) ==
    /\ pc = "new"
    /\ last_output' = <<>>
    /\ alive' = TRUE
    /\ buffer' = <<>>
    /\ caller' = "spawn"
    /\ pc' = IF wait_first_prompt THEN "expect_first" ELSE "idle"
    /\ last_op' = IF wait_first_prompt THEN last_op ELSE "spawn"
    /\ what' = "none"
    /\ held' = <<>> /\ seen' = <<>> /\ late' = <<>> /\ matches' = 0 /\ waits' = 0
    /\ UNCHANGED <<any_PS_re, before, out, exc, emitted, cmds>>
    /\ UNCHANGED notSess

\* mutant: the banner is not discarded
SpawnDropBanner_Keep ==
    /\ pc = "spawn_drop"
    /\ pc' = "idle"
    /\ last_op' = "spawn"
    /\ UNCHANGED <<caller, alive, any_PS_re, last_output, buffer, before, what,
                   out, exc, held, seen, late, matches, waits, emitted, cmds>>
    /\ UNCHANGED notSess

\* _spawn_interpreter after _expect_prompt returned: discard the banner
SpawnDropBanner ==
    /\ pc = "spawn_drop"
    /\ last_output' = <<>>
    /\ pc' = "idle"
    /\ last_op' = "spawn"
    /\ UNCHANGED <<caller, alive, any_PS_re, buffer, before, what, out, exc,
                   held, seen, late, matches, waits, emitted, cmds>>
    /\ UNCHANGED notSess

\* _exec_and_wait: send the source, then enter _expect_prompt
Send ==
    /\ \/ pc = "idle"
       \/ pc = "raised" /\ caller = "exec" /\ exc.type = "TimeoutException"
    /\ cmds < MaxCmds
    /\ cmds' = cmds + 1
    /\ caller' = "exec"
    /\ pc' = "expect_first"
    /\ exc' = NoExc
    /\ what' = "none"
    /\ held' = join(last_output)
    /\ seen' = buffer /\ late' = <<>> /\ matches' = 0 /\ waits' = 0
    /\ UNCHANGED <<alive, any_PS_re, last_output, buffer, before, out, last_op,
                   emitted>>
    /\ UNCHANGED notSess

\* expect() finds PS1_re: before is the text up to the match, the match is
\* consumed, the rest stays in the reader's buffer
ExpectMatched(nextpc) ==
    /\ HasPS1(buffer)
    /\ LET i == FirstPS1(buffer) IN
         /\ before' = SubSeq(buffer, 1, i - 1)
         /\ buffer' = SubSeq(buffer, i + 1, Len(buffer))
         /\ last_output' = Append(last_output, SubSeq(buffer, 1, i - 1))
    /\ what' = "PS1_found"
    /\ matches' = matches + 1
    /\ waits' = waits + 1
    /\ pc' = nextpc
    /\ UNCHANGED <<caller, alive, any_PS_re, out, exc, last_op, held, seen, late,
                   emitted, cmds>>
    /\ UNCHANGED notSess

\* expect() raises pexpect.EOF: the child is gone and no prompt is left to read
ExpectEOF ==
    /\ InWait
    /\ ~alive
    /\ ~HasPS1(buffer)
    /\ before' = buffer
    /\ buffer' = <<>>
    /\ waits' = waits + 1
    /\ exc' = [type |-> "EOF", msg |-> <<>>]
    /\ pc' = "raised"
    /\ last_op' = IF caller = "spawn" THEN "spawn" ELSE "exec_and_wait"
    /\ UNCHANGED <<caller, alive, any_PS_re, last_output, what, out, held, seen, late,
                   matches, emitted, cmds>>
    /\ UNCHANGED notSess

\* mutant: no settle loop, _expect_prompt returns at the first prompt
ExpectFirstMatch_NoSettle ==
    /\ pc = "expect_first"
    /\ ExpectMatched(IF caller = "spawn" THEN "spawn_drop" ELSE "get_output")

\* _expect_prompt, first wait, prompt found
ExpectFirstMatch ==
    /\ pc = "expect_first"
    /\ ExpectMatched("settle")

\* mutant: the message carries the first characters, before[:1000]
ExpectFirstTimeout_Head ==
    /\ pc = "expect_first"
    /\ alive
    /\ ~HasPS1(buffer)
    /\ before' = buffer
    /\ last_output' = Append(last_output, buffer)
    /\ what' = "Timeout"
    /\ waits' = waits + 1
    /\ exc' = [type |-> "TimeoutException",
               msg |-> IF Len(buffer) <= TailLen THEN buffer
                       ELSE SubSeq(buffer, 1, TailLen)]
    /\ pc' = "raised"
    /\ last_op' = IF caller = "spawn" THEN "spawn" ELSE "exec_and_wait"
    /\ UNCHANGED <<caller, alive, any_PS_re, buffer, out, held, seen, late, matches,
                   emitted, cmds>>
    /\ UNCHANGED notSess

\* _expect_prompt, first wait, deadline passed: the stall error
ExpectFirstTimeout ==
    /\ pc = "expect_first"
    /\ alive
    /\ ~HasPS1(buffer)
    /\ before' = buffer
    /\ last_output' = Append(last_output, buffer)
    /\ what' = "Timeout"
    /\ waits' = waits + 1
    /\ exc' = [type |-> "TimeoutException", msg |-> LastChars(buffer, TailLen)]
    /\ pc' = "raised"
    /\ last_op' = IF caller = "spawn" THEN "spawn" ELSE "exec_and_wait"
    /\ UNCHANGED <<caller, alive, any_PS_re, buffer, out, held, seen, late, matches,
                   emitted, cmds>>
    /\ UNCHANGED notSess

\* mutant: the settle loop is left when another prompt is found
SettleMatch_Leaves ==
    /\ pc = "settle"
    /\ ExpectMatched(IF caller = "spawn" THEN "spawn_drop" ELSE "get_output")

\* the settle loop: another prompt within the settle window
SettleMatch ==
    /\ pc = "settle"
    /\ ExpectMatched("settle")

\* the settle loop: no prompt within the settle window, _expect_prompt returns
SettleTimeout ==
    /\ pc = "settle"
    /\ alive
    /\ ~HasPS1(buffer)
    /\ before' = buffer
    /\ last_output' = Append(last_output, buffer)
    /\ what' = "Timeout"
    /\ waits' = waits + 1
    /\ pc' = IF caller = "spawn" THEN "spawn_drop" ELSE "get_output"
    /\ UNCHANGED <<caller, alive, any_PS_re, buffer, out, exc, last_op, held, seen,
                   late, matches, emitted, cmds>>
    /\ UNCHANGED notSess

\* mutant: _get_output without its _drop_output
get_output_NoDrop(nextpc, op) ==
    /\ out' = get_output_value(last_output, any_PS_re)
    /\ pc' = nextpc
    /\ last_op' = op
    /\ UNCHANGED <<caller, alive, any_PS_re, last_output, buffer, before, what, exc,
                   held, seen, late, matches, waits, emitted, cmds>>
    /\ UNCHANGED notSess

\* _get_output
get_output(nextpc, op) ==
    /\ out' = get_output_value(last_output, any_PS_re)
    /\ last_output' = <<>>
    /\ pc' = nextpc
    /\ last_op' = op
    /\ UNCHANGED <<caller, alive, any_PS_re, buffer, before, what, exc, held, seen,
                   late, matches, waits, emitted, cmds>>
    /\ UNCHANGED notSess

\* _exec_and_wait returns self._get_output()
ExecReturn ==
    /\ pc = "get_output"
    /\ get_output("idle", "exec_and_wait")

\* _get_output called between commands
GetOutput ==
    /\ pc \in {"idle", "raised"}
    /\ get_output(pc, "get_output")

\* _drop_output called between commands
DropOutput ==
    /\ pc \in {"idle", "raised"}
    /\ last_output' = <<>>
    /\ last_op' = "drop_output"
    /\ UNCHANGED <<pc, caller, alive, any_PS_re, buffer, before, what, out, exc,
                   held, seen, late, matches, waits, emitted, cmds>>
    /\ UNCHANGED notSess

\* what the driver does with a session
SessionStep ==
    \/ ChildExit
    \/ \E w \in BOOLEAN : Spawn(w)
    \/ SpawnDropBanner
    \/ Send
    \/ ExpectFirstMatch
    \/ ExpectFirstTimeout
    \/ ExpectEOF
    \/ SettleMatch
    \/ SettleTimeout
    \/ ExecReturn
    \/ GetOutput
    \/ DropOutput


----------------------------------------------------------------------------
\* byexample.py: plugin discovery, language validation and the file loop

Kinds == <<"interpreters", "parsers", "finders">>

\* the classes that units may define or import.  base: the contract class it
\* derives from; isbase: it is that contract class itself; key: the value of
\* its identity attribute (language or target), "" when it has none;
\* raises: its constructor raises when called with (verbosity, encoding)
Klass ==
    [PyInterp    |-> [base |-> "interpreters", isbase |-> FALSE, key |-> "python", raises |-> FALSE],
     PyInterpB   |-> [base |-> "interpreters", isbase |-> FALSE, key |-> "python", raises |-> FALSE],
     RbParser    |-> [base |-> "parsers",      isbase |-> FALSE, key |-> "ruby",   raises |-> FALSE],
     ShFinder    |-> [base |-> "finders",      isbase |-> FALSE, key |-> "sh",     raises |-> FALSE],
     BadInterp   |-> [base |-> "interpreters", isbase |-> FALSE, key |-> "bad",    raises |-> TRUE],
     Interpreter |-> [base |-> "interpreters", isbase |-> TRUE,  key |-> "",       raises |-> FALSE]]

KlassNames == DOMAIN Klass

\* a unit: whether it loads, and the classes found among its members
UnitMembers ==
    {{}, {"PyInterp"}, {"PyInterpB"}, {"PyInterp", "PyInterpB"},
     {"RbParser", "ShFinder"}, {"BadInterp"}, {"Interpreter", "PyInterp"}}

UnitChoices ==
    {[loads |-> l, members |-> m] : l \in BOOLEAN, m \in UnitMembers}

\* objects: a class is the object with n = 0, its instances have n >= 1
ClassObj(k) == [klass |-> k, n |-> 0]

\* is_a(target_class, key_attr)
is_a(kind, k) ==
    /\ Klass[k].base = kind
    /\ ~Klass[k].isbase
    /\ Klass[k].key # ""

Values(f) == {f[x] : x \in DOMAIN f}

EmptyMap == [x \in {} |-> 0]

Put(f, k, v) == [x \in DOMAIN f \cup {k} |-> IF x = k THEN v ELSE f[x]]

Perms(S) ==
    {q \in [1..Cardinality(S) -> S] : \A i, j \in 1..Cardinality(S) : i # j => q[i] # q[j]}

\* klasses_found for one kind of one unit: the members is_a accepts, minus
\* set(container.values()); the container holds instances
klasses_found(kind, unit, container) ==
    LET found == {ClassObj(k) : k \in {x \in unit.members : is_a(kind, x)}}
    IN  IF found # {} THEN found \ Values(container) ELSE found

\* mutant: an identity value already in the container keeps its instance
RECURSIVE Register_FirstWins(_, _, _)
Register_FirstWins(container, objs, count) ==
    IF objs = <<>> THEN container
    ELSE LET k == Head(objs).klass
             obj == [klass |-> k, n |-> count[k] + 1]
         IN  IF Klass[k].key \in DOMAIN container
             THEN Register_FirstWins(container, Tail(objs), count)
             ELSE Register_FirstWins(Put(container, Klass[k].key, obj), Tail(objs), count)

\* for obj in objs: container[getattr(obj, key)] = obj
RECURSIVE Register(_, _, _)
Register(container, objs, count) ==
    IF objs = <<>> THEN container
    ELSE LET k == Head(objs).klass
             obj == [klass |-> k, n |-> count[k] + 1]
         IN  Register(Put(container, Klass[k].key, obj), Tail(objs), count)

IdleMain ==
    /\ m_pc = "load"
    /\ m_exc = "none"
    /\ units = 0
    /\ registry = [kind \in {Kinds[i] : i \in 1..3} |-> EmptyMap]
    /\ created = [k \in KlassNames |-> 0]
    /\ selected = <<>>
    /\ allowed_languages = {}
    /\ testfiles = <<>>
    /\ cur = 1
    /\ dry = FALSE
    /\ fail_fast = FALSE
    /\ exit_status = -1
    /\ extracted = <<>>
    /\ ran = <<>>
    /\ disc = <<>>

InitMain == IdleMain

\* load_modules, one turn of the loop: the unit does not load
LoadUnitFails(unit) ==
    /\ m_pc = "load"
    /\ units < MaxUnits
    /\ ~unit.loads
    /\ units' = units + 1
    /\ UNCHANGED <<m_pc, m_exc, registry, created, selected, allowed_languages,
                   testfiles, cur, dry, fail_fast, exit_status, extracted, ran>>
    /\ UNCHANGED disc
    /\ UNCHANGED notMain

\* load_modules, one turn of the loop: the unit loads and its classes are
\* instantiated and registered, kind by kind; ord[i] is the order in which
\* the set of classes of kind i is iterated
LoadUnit(unit) ==
    /\ m_pc = "load"
    /\ units < MaxUnits
    /\ unit.loads
    /\ units' = units + 1
    /\ LET new == [i \in 1..3 |-> klasses_found(Kinds[i], unit, registry[Kinds[i]])]
           all == new[1] \cup new[2] \cup new[3]
       IN  \E o1 \in Perms(new[1]), o2 \in Perms(new[2]), o3 \in Perms(new[3]) :
           LET ord == <<o1, o2, o3>> IN
              IF \E c \in all : Klass[c.klass].raises
              THEN \* klass(verbosity, encoding) raises: nothing catches it
                   /\ m_pc' = "raised"
                   /\ m_exc' = "Exception"
                   /\ UNCHANGED <<registry, created, disc>>
              ELSE /\ registry' = [kind \in DOMAIN registry |->
                          LET i == CHOOSE j \in 1..3 : Kinds[j] = kind
                          IN  Register(registry[kind], ord[i], created)]
                   /\ created' = [k \in KlassNames |->
                          IF ClassObj(k) \in all THEN created[k] + 1 ELSE created[k]]
                   /\ disc' = Append(disc, {c.klass : c \in all})
                   /\ UNCHANGED <<m_pc, m_exc>>
    /\ UNCHANGED <<selected, allowed_languages, testfiles, cur, dry, fail_fast,
                   exit_status, extracted, ran>>
    /\ UNCHANGED notMain

\* load_modules: iter_modules is exhausted, return registry
LoadDone ==
    /\ m_pc = "load"
    /\ m_pc' = "loaded"
    /\ UNCHANGED <<m_exc, units, registry, created, selected, allowed_languages,
                   testfiles, cur, dry, fail_fast, exit_status, extracted, ran>>
    /\ UNCHANGED disc
    /\ UNCHANGED notMain

ToSet(q) == {q[i] : i \in 1..Len(q)}

\* mutant: only the interpreters make a language available
not_found_InterpretersOnly(reg, sel) ==
    ToSet(sel) \ {Klass[obj.klass].key : obj \in Values(reg["interpreters"])}

\* the languages of args.languages that get_allowed_languages does not find
not_found(reg, sel) ==
    LET available == {Klass[obj.klass].key : obj \in Values(reg["interpreters"])}
                     \cup {Klass[obj.klass].key : obj \in Values(reg["parsers"])}
    IN  ToSet(sel) \ available

\* the values of -l on the command line
SelectedChoices ==
    {<<"python">>, <<"ruby", "python">>, <<"python", "python">>,
     <<"cobol">>, <<"python", "cobol">>}

\* main: get_allowed_languages(registry, args.languages)
GetAllowedLanguages(sel) ==
    /\ m_pc = "loaded"
    /\ selected' = sel
    /\ IF not_found(registry, sel) # {}
       THEN /\ m_pc' = "raised"
            /\ m_exc' = "ValueError"
            /\ UNCHANGED allowed_languages
       ELSE /\ m_pc' = "setup"
            /\ allowed_languages' = ToSet(sel)
            /\ UNCHANGED m_exc
    /\ UNCHANGED <<units, registry, created, testfiles, cur, dry, fail_fast,
                   exit_status, extracted, ran>>
    /\ UNCHANGED disc
    /\ UNCHANGED notMain

FileNames == {"f1", "f2"}

FileLists == UNION {[1..n -> FileNames] : n \in 0..MaxFiles}

\* main, lines 140 to 157: the files to run, the options, exit_status = 0
Setup(files, skip, isdry, ff) ==
    /\ m_pc = "setup"
    /\ testfiles' = SelectSeq(files, LAMBDA f : f \in (ToSet(files) \ skip))
    /\ dry' = isdry
    /\ fail_fast' = ff
    /\ exit_status' = 0
    /\ cur' = 1
    /\ m_pc' = "loop"
    /\ UNCHANGED <<m_exc, units, registry, created, selected, allowed_languages,
                   extracted, ran>>
    /\ UNCHANGED disc
    /\ UNCHANGED notMain

Max(a, b) == IF a >= b THEN a ELSE b

\* mutant: the status is assigned, not raised to the maximum
NewStatus_Assign(status, failed, aborted_or_crashed) ==
    LET s1 == IF failed THEN 1 ELSE status
    IN  IF aborted_or_crashed THEN 2 ELSE s1

\* lines 166 to 170
NewStatus(status, failed, aborted_or_crashed) ==
    LET s1 == IF failed THEN Max(status, 1) ELSE status
    IN  IF aborted_or_crashed THEN Max(s1, 2) ELSE s1

\* main, one turn of the file loop with --dry: the examples are extracted only
DryFile ==
    /\ m_pc = "loop"
    /\ cur <= Len(testfiles)
    /\ dry
    /\ extracted' = Append(extracted, testfiles[cur])
    /\ cur' = cur + 1
    /\ UNCHANGED <<m_pc, m_exc, units, registry, created, selected,
                   allowed_languages, testfiles, dry, fail_fast, exit_status, ran>>
    /\ UNCHANGED disc
    /\ UNCHANGED notMain

\* mutant: the file loop never breaks
RunFile_NoBreak(failed, aborted_or_crashed) ==
    /\ m_pc = "loop"
    /\ cur <= Len(testfiles)
    /\ ~dry
    /\ extracted' = Append(extracted, testfiles[cur])
    /\ ran' = Append(ran, [file |-> testfiles[cur], failed |-> failed,
                           aborted_or_crashed |-> aborted_or_crashed])
    /\ exit_status' = NewStatus(exit_status, failed, aborted_or_crashed)
    /\ m_pc' = "loop" /\ cur' = cur + 1
    /\ UNCHANGED <<m_exc, units, registry, created, selected, allowed_languages,
                   testfiles, dry, fail_fast>>
    /\ UNCHANGED disc
    /\ UNCHANGED notMain

\* main, one turn of the file loop: extract, run, fold the result, maybe break
RunFile(failed, aborted_or_crashed) ==
    /\ m_pc = "loop"
    /\ cur <= Len(testfiles)
    /\ ~dry
    /\ extracted' = Append(extracted, testfiles[cur])
    /\ ran' = Append(ran, [file |-> testfiles[cur], failed |-> failed,
                           aborted_or_crashed |-> aborted_or_crashed])
    /\ exit_status' = NewStatus(exit_status, failed, aborted_or_crashed)
    /\ IF (failed \/ aborted_or_crashed) /\ fail_fast
       THEN m_pc' = "done" /\ UNCHANGED cur
       ELSE m_pc' = "loop" /\ cur' = cur + 1
    /\ UNCHANGED <<m_exc, units, registry, created, selected, allowed_languages,
                   testfiles, dry, fail_fast>>
    /\ UNCHANGED disc
    /\ UNCHANGED notMain

\* main: the loop is over, return exit_status
Return ==
    /\ m_pc = "loop"
    /\ cur > Len(testfiles)
    /\ m_pc' = "done"
    /\ UNCHANGED <<m_exc, units, registry, created, selected, allowed_languages,
                   testfiles, cur, dry, fail_fast, exit_status, extracted, ran>>
    /\ UNCHANGED disc
    /\ UNCHANGED notMain

----------------------------------------------------------------------------
\* interpreter.py: the child's terminal, set_cooked_mode and interact

\* the flags of set_cooked_mode
input_flags  == {"BRKINT", "IGNPAR", "ISTRIP", "ICRNL", "IXON"}
output_flags == {"OPOST"}
local_flags  == {"ECHO", "ISIG", "ICANON"}

\* the flags of each word: those above and one or two others.  A flag word is
\* the set of its flags that are set; x | m is union, x & ~m is difference.
IFlags == input_flags \cup {"IGNBRK"}
OFlags == output_flags \cup {"ONLCR"}
LFlags == local_flags \cup {"ECHOE"}

\* [iflag, oflag, cflag, lflag, ispeed, ospeed, cc]
TtyStates ==
    [iflag : SUBSET IFlags, oflag : SUBSET OFlags, cflag : {{"CS8"}},
     lflag : SUBSET LFlags, ispeed : {"B38400"}, ospeed : {"B38400"},
     cc : {"cc"}]

\* mutant: turning cooked mode off clears the three flag words
cooked_attr_ClearsWords(attr, state) ==
    IF state
    THEN [attr EXCEPT !.iflag = @ \cup input_flags,
                      !.oflag = @ \cup output_flags,
                      !.lflag = @ \cup local_flags]
    ELSE [attr EXCEPT !.iflag = {}, !.oflag = {}, !.lflag = {}]

\* lines 221 to 234: the list handed to tcsetattr
cooked_attr(attr, state) ==
    IF state
    THEN [attr EXCEPT !.iflag = @ \cup input_flags,
                      !.oflag = @ \cup output_flags,
                      !.lflag = @ \cup local_flags]
    ELSE [attr EXCEPT !.iflag = @ \ input_flags,
                      !.oflag = @ \ output_flags,
                      !.lflag = @ \ local_flags]

\* set_cooked_mode(state) on a terminal with attributes attr: the exception
\* that leaves it ("none" when it returns) and the attributes it leaves.
\* tc_error: tcgetattr raises termios.error; its handler reads errno, which
\* the module does not import.  reduce is a builtin of Python 2 only.
set_cooked_mode(attr, state, tc_error) ==
    IF tc_error THEN [exc |-> "NameError", attr |-> attr]
    ELSE IF py_major # 2 THEN [exc |-> "NameError", attr |-> attr]
    ELSE [exc |-> "none", attr |-> cooked_attr(attr, state)]

NoCall == [called |-> FALSE, state |-> FALSE, tc_error |-> FALSE]

IdleTty ==
    /\ tty = [iflag |-> {}, oflag |-> {}, cflag |-> {"CS8"}, lflag |-> {},
              ispeed |-> "B38400", ospeed |-> "B38400", cc |-> "cc"]
    /\ t_pc = "idle"
    /\ saved = tty
    /\ t_exc = "none"
    /\ entry_tty = tty
    /\ forced = 0
    /\ t_call = NoCall

IdleTerm == py_major = 2 /\ IdleTty

InitTerm ==
    /\ py_major \in {2, 3}
    /\ tty \in TtyStates
    /\ t_pc = "idle"
    /\ saved = tty
    /\ t_exc = "none"
    /\ entry_tty = tty
    /\ forced = 0
    /\ t_call = NoCall

\* set_cooked_mode called by an interpreter outside interact()
SetCookedMode(state, tc_error) ==
    /\ t_pc \in {"idle", "done"}
    /\ LET r == set_cooked_mode(tty, state, tc_error) IN
         /\ tty' = r.attr
         /\ t_exc' = r.exc
    /\ t_pc' = "idle"
    /\ UNCHANGED <<py_major, saved, entry_tty, forced>>
    /\ t_call' = [called |-> TRUE, state |-> state, tc_error |-> tc_error]
    /\ UNCHANGED notTerm

\* interact: attr = termios.tcgetattr(child_fd), enter the try block
InteractBegin ==
    /\ t_pc \in {"idle", "done"}
    /\ saved' = tty
    /\ entry_tty' = tty
    /\ forced' = 0
    /\ t_exc' = "none"
    /\ t_pc' = "try"
    /\ UNCHANGED <<py_major, tty>>
    /\ UNCHANGED t_call
    /\ UNCHANGED notTerm

\* interact: if send: self.interpreter.send(send); the send may raise
PrimeSend(send, raises) ==
    /\ t_pc = "try"
    /\ IF send /\ raises
       THEN t_pc' = "finally" /\ t_exc' = "OSError"
       ELSE t_pc' = "session" /\ UNCHANGED t_exc
    /\ UNCHANGED <<py_major, tty, saved, entry_tty, forced>>
    /\ UNCHANGED t_call
    /\ UNCHANGED notTerm

\* the pass-through session: one batch of user input goes through
\* ensure_cooked_mode, which forces cooked mode and then applies input_filter
SessionInput(filter_raises) ==
    /\ t_pc = "session"
    /\ LET r == set_cooked_mode(tty, TRUE, FALSE) IN
         /\ tty' = r.attr
         /\ IF r.exc # "none"
            THEN t_pc' = "finally" /\ t_exc' = r.exc
            ELSE IF filter_raises
            THEN t_pc' = "finally" /\ t_exc' = "FilterError"
            ELSE UNCHANGED <<t_pc, t_exc>>
    /\ forced' = IF forced < MaxForced THEN forced + 1 ELSE forced
    /\ UNCHANGED <<py_major, saved, entry_tty>>
    /\ UNCHANGED t_call
    /\ UNCHANGED notTerm

\* the pass-through session: one batch of child output goes through
\* output_filter, which may raise
SessionOutput(filter_raises) ==
    /\ t_pc = "session"
    /\ IF filter_raises
       THEN t_pc' = "finally" /\ t_exc' = "FilterError"
       ELSE UNCHANGED <<t_pc, t_exc>>
    /\ UNCHANGED <<py_major, tty, saved, entry_tty, forced>>
    /\ UNCHANGED t_call
    /\ UNCHANGED notTerm

\* the program in the child changes its own terminal (a line editor leaves
\* canonical mode and echo)
ChildSetsRaw ==
    /\ t_pc = "session"
    /\ tty' = [tty EXCEPT !.lflag = @ \ {"ICANON", "ECHO"}]
    /\ UNCHANGED <<py_major, t_pc, saved, t_exc, entry_tty, forced>>
    /\ UNCHANGED t_call
    /\ UNCHANGED notTerm

\* the pass-through session ends: escape character or end of the child
SessionEnd ==
    /\ t_pc = "session"
    /\ t_pc' = "finally"
    /\ UNCHANGED <<py_major, tty, saved, t_exc, entry_tty, forced>>
    /\ UNCHANGED t_call
    /\ UNCHANGED notTerm

\* mutant: the attributes are restored after a normal end only (no finally)
Restore_NormalOnly ==
    /\ t_pc = "finally"
    /\ tty' = IF t_exc = "none" THEN saved ELSE tty
    /\ t_pc' = "done"
    /\ UNCHANGED <<py_major, saved, t_exc, entry_tty, forced>>
    /\ UNCHANGED t_call
    /\ UNCHANGED notTerm

\* interact: finally: termios.tcsetattr(child_fd, TCSANOW, attr)
Restore ==
    /\ t_pc = "finally"
    /\ tty' = saved
    /\ t_pc' = "done"
    /\ UNCHANGED <<py_major, saved, t_exc, entry_tty, forced>>
    /\ UNCHANGED t_call
    /\ UNCHANGED notTerm

----------------------------------------------------------------------------
\* concern.py: ConcernComposite

\* the methods the class Concern defines
LifecycleMethods ==
    {"start_run", "end_run", "skip_example", "start_example", "start_interact",
     "finish_interact", "user_aborted", "crashed", "success", "failure"}
UnderscoreMethods == {"__repr__"}
ConcernMethods == LifecycleMethods \cup UnderscoreMethods

\* inspect.getmembers(Concern, predicate=inspect.ismethod): the functions of
\* a class are (unbound) methods under Python 2 and plain functions, which
\* inspect.ismethod rejects, under Python 3
MethodMembers == IF py_major = 2 THEN ConcernMethods ELSE {}

\* lines 150 to 154: the methods _patch replaces on ConcernComposite
Patched == {m \in MethodMembers : m \notin UnderscoreMethods}

Observers == {"o1", "o2", "o3"}
ArgChoices == {"args1", "args2"}

IdleConcern ==
    /\ c_pc = "new"
    /\ c_exc = "none"
    /\ c_has_key = FALSE
    /\ c_map = {}
    /\ raisers = {}
    /\ registered = <<>>
    /\ concerns = <<>>
    /\ c_method = "none"
    /\ c_args = "none"
    /\ c_i = 1
    /\ calls = <<>>
    /\ c_ret = "none"

InitConcern == IdleConcern

\* a caller gives the registry a 'concerns' mapping
MakeConcerns ==
    /\ c_pc = "new"
    /\ ~c_has_key
    /\ c_has_key' = TRUE
    /\ UNCHANGED <<c_pc, c_exc, c_map, raisers, registered, concerns, c_method,
                   c_args, c_i, calls, c_ret>>
    /\ UNCHANGED notCC

\* a caller registers observer o in registry['concerns']
RegisterConcern(o, raises) ==
    /\ c_pc = "new"
    /\ c_has_key
    /\ o \notin c_map
    /\ Len(registered) < MaxObs
    /\ c_map' = c_map \cup {o}
    /\ registered' = Append(registered, o)
    /\ raisers' = IF raises THEN raisers \cup {o} ELSE raisers
    /\ UNCHANGED <<c_pc, c_exc, c_has_key, concerns, c_method, c_args, c_i,
                   calls, c_ret>>
    /\ UNCHANGED notCC

\* ConcernComposite.__init__: self.concerns = registry['concerns'].values();
\* the values of a dict come in the order the dict iterates them
Build(order) ==
    /\ c_pc = "new"
    /\ IF ~c_has_key
       THEN /\ c_pc' = "raised"
            /\ c_exc' = "KeyError"
            /\ UNCHANGED concerns
       ELSE /\ order \in Perms(c_map)
            /\ concerns' = order
            /\ c_pc' = "built"
            /\ UNCHANGED c_exc
    /\ UNCHANGED <<c_has_key, c_map, raisers, registered, c_method, c_args, c_i,
                   calls, c_ret>>
    /\ UNCHANGED notCC

\* a lifecycle method is called on the composite: for_each_concern_do when
\* the method was patched, else the method inherited from Concern (pass)
CompositeCall(method, args) ==
    /\ c_pc \in {"built", "returned"} \/ (c_pc = "raised" /\ c_exc = "ObserverError")
    /\ c_method' = method
    /\ c_args' = args
    /\ calls' = <<>>
    /\ c_i' = 1
    /\ c_exc' = "none"
    /\ IF method \in Patched
       THEN c_pc' = "fanout" /\ c_ret' = "none"
       ELSE c_pc' = "returned" /\ c_ret' = "None"
    /\ UNCHANGED <<c_has_key, c_map, raisers, registered, concerns>>
    /\ UNCHANGED notCC

\* for_each_concern_do: getattr(concern, method_name)(*args, **kargs)
Invoke ==
    /\ c_pc = "fanout"
    /\ c_i <= Len(concerns)
    /\ IF concerns[c_i] \in raisers
       THEN /\ c_pc' = "raised"
            /\ c_exc' = "ObserverError"
            /\ UNCHANGED <<calls, c_i>>
       ELSE /\ calls' = Append(calls, [observer |-> concerns[c_i],
                                       method |-> c_method, args |-> c_args])
            /\ c_i' = c_i + 1
            /\ UNCHANGED <<c_pc, c_exc>>
    /\ UNCHANGED <<c_has_key, c_map, raisers, registered, concerns, c_method,
                   c_args, c_ret>>
    /\ UNCHANGED notCC

\* for_each_concern_do: the loop is over, the function returns None
FanOutReturn ==
    /\ c_pc = "fanout"
    /\ c_i > Len(concerns)
    /\ c_pc' = "returned"
    /\ c_ret' = "None"
    /\ UNCHANGED <<c_exc, c_has_key, c_map, raisers, registered, concerns,
                   c_method, c_args, c_i, calls>>
    /\ UNCHANGED notCC

\* C18 as stated: when a lifecycle call on the composite was left by the
\* exception of an observer, the observers registered before that one, and
\* no other, have been invoked for the call, in registration order.
C18_RaisingObserverStopsFanOut ==
    (c_pc = "raised" /\ c_exc = "ObserverError") =>
        \E p \in 1..Len(registered) :
           /\ registered[p] = concerns[c_i]
           /\ calls = [j \in 1..(p - 1) |->
                         [observer |-> registered[j], method |-> c_method,
                          args |-> c_args]]

----------------------------------------------------------------------------
\* The run of one file.  ExampleRunner.run is not among the sources at hand:
\* it is modelled from the Run Orchestrator algorithm and from the
\* docstrings of the Concern methods.

NoOpts == [skip |-> FALSE, fail_fast |-> FALSE, pass |-> FALSE]

Event(name, k) == [ev |-> name, example |-> k]

IdleRun ==
    /\ r_pc = "new"
    /\ r_n = 0
    /\ r_k = 1
    /\ r_ff = FALSE
    /\ r_opts = NoOpts
    /\ r_inter = 0
    /\ r_failed = FALSE
    /\ r_user_aborted = FALSE
    /\ r_crashed = FALSE
    /\ r_result = <<>>
    /\ events = <<>>
    /\ r_ffk = {}

InitRun == IdleRun

\* overlay wins per key; "unset" leaves the run-level value
Merge(run_level, overlay) ==
    IF overlay = "unset" THEN run_level ELSE overlay = "True"

\* steps 1 and 2: the interpreters are initialized, start_run is fired
RunStart(n, ff) ==
    /\ r_pc = "new"
    /\ r_n' = n
    /\ r_ff' = ff
    /\ r_k' = 1
    /\ events' = <<Event("start_run", 0)>>
    /\ r_pc' = "between"
    /\ UNCHANGED <<r_opts, r_inter, r_failed, r_user_aborted, r_crashed, r_result>>
    /\ UNCHANGED r_ffk
    /\ UNCHANGED notRun

\* step 3, the merged SKIP flag is set: skip_example, go on
SkipExample ==
    /\ r_pc = "between"
    /\ r_k <= r_n
    /\ events' = Append(events, Event("skip_example", r_k))
    /\ r_k' = r_k + 1
    /\ UNCHANGED <<r_pc, r_n, r_ff, r_opts, r_inter, r_failed, r_user_aborted,
                   r_crashed, r_result>>
    /\ UNCHANGED r_ffk
    /\ UNCHANGED notRun

\* step 3, the merged SKIP flag is not set: start_example, then the
\* interpreter runs the example
StartExample(ff_overlay, pass) ==
    /\ r_pc = "between"
    /\ r_k <= r_n
    /\ r_opts' = [skip |-> FALSE, fail_fast |-> Merge(r_ff, ff_overlay),
                  pass |-> pass]
    /\ r_inter' = 0
    /\ events' = Append(events, Event("start_example", r_k))
    /\ r_pc' = "running"
    /\ UNCHANGED <<r_n, r_k, r_ff, r_failed, r_user_aborted, r_crashed, r_result>>
    /\ r_ffk' = IF Merge(r_ff, ff_overlay) THEN r_ffk \cup {r_k} ELSE r_ffk
    /\ UNCHANGED notRun

\* the user is handed the interpreter of the example
InteractStart ==
    /\ r_pc = "running"
    /\ r_inter < MaxInteract
    /\ r_inter' = r_inter + 1
    /\ events' = Append(events, Event("start_interact", r_k))
    /\ r_pc' = "interacting"
    /\ UNCHANGED <<r_n, r_k, r_ff, r_opts, r_failed, r_user_aborted, r_crashed,
                   r_result>>
    /\ UNCHANGED r_ffk
    /\ UNCHANGED notRun

\* the interactive session is over
InteractFinish ==
    /\ r_pc = "interacting"
    /\ events' = Append(events, Event("finish_interact", r_k))
    /\ r_pc' = "running"
    /\ UNCHANGED <<r_n, r_k, r_ff, r_opts, r_inter, r_failed, r_user_aborted,
                   r_crashed, r_result>>
    /\ UNCHANGED r_ffk
    /\ UNCHANGED notRun

Outcomes == {"match", "mismatch", "stall", "crash", "interrupt"}

\* the event fired for an outcome under the merged options
OutcomeEvent(o, opts) ==
    CASE o = "crash" -> "crashed"
      [] o = "interrupt" -> "user_aborted"
      [] o = "match" -> "success"
      [] OTHER -> IF opts.pass THEN "success" ELSE "failure"

\* mutant: a crash leaves the run at once, end_run is not fired
AfterOutcome_CrashLeaves(o, opts) ==
    LET e == OutcomeEvent(o, opts) IN
    IF e = "crashed" THEN "returned"
    ELSE IF e = "user_aborted" THEN "ending"
    ELSE IF e = "failure" /\ opts.fail_fast THEN "ending"
    ELSE "between"

\* mutant: a failure never stops the run
AfterOutcome_IgnoresFailFast(o, opts) ==
    LET e == OutcomeEvent(o, opts) IN
    IF e \in {"crashed", "user_aborted"} THEN "ending" ELSE "between"

\* where the run goes after an outcome
AfterOutcome(o, opts) ==
    LET e == OutcomeEvent(o, opts) IN
    IF e \in {"crashed", "user_aborted"} THEN "ending"
    ELSE IF e = "failure" /\ opts.fail_fast THEN "ending"
    ELSE "between"

\* step 3: the example ended; exactly one of user_aborted, crashed, success,
\* failure is fired, then the run goes on or stops
ExampleOutcome(o) ==
    /\ r_pc = "running"
    /\ LET e == OutcomeEvent(o, r_opts) IN
         /\ events' = Append(events, Event(e, r_k))
         /\ r_failed' = (r_failed \/ e = "failure")
         /\ r_crashed' = (r_crashed \/ e = "crashed")
         /\ r_user_aborted' = (r_user_aborted \/ e = "user_aborted")
    /\ r_pc' = AfterOutcome(o, r_opts)
    /\ r_k' = IF AfterOutcome(o, r_opts) = "between" THEN r_k + 1 ELSE r_k
    /\ UNCHANGED <<r_n, r_ff, r_opts, r_inter, r_result>>
    /\ UNCHANGED r_ffk
    /\ UNCHANGED notRun

\* steps 4 and 5: end_run is fired, the result is returned
EndRun ==
    /\ \/ r_pc = "between" /\ r_k > r_n
       \/ r_pc = "ending"
    /\ events' = Append(events, Event("end_run", 0))
    /\ r_result' = <<r_failed, r_user_aborted \/ r_crashed>>
    /\ r_pc' = "returned"
    /\ UNCHANGED <<r_n, r_k, r_ff, r_opts, r_inter, r_failed, r_user_aborted,
                   r_crashed>>
    /\ UNCHANGED r_ffk
    /\ UNCHANGED notRun

----------------------------------------------------------------------------
\* Specifications: one per component, the other components at rest

IdleSession == InitSession /\ any_PS_re = "None"

Init == InitSession /\ IdleMain /\ IdleTerm /\ IdleConcern /\ IdleRun

Next ==
    \/ \E c \in Chars : ChildEmit(<<c>>)
    \/ SessionStep

Spec == Init /\ [][Next]_vars

\* The same session with a child that writes long chunks, so that the
\* unconsumed output grows past TailLen characters.
Bulk(c) == [i \in 1..BulkLen |-> c]
TailChunks == {Bulk("a"), Bulk(LF), <<PS1>>}

NextTail ==
    \/ \E chunk \in TailChunks : ChildEmit(chunk)
    \/ SessionStep

SpecTail == Init /\ [][NextTail]_vars

\* The same session where every wait of _expect_prompt ends: expect() returns
\* or raises when it finds the pattern, at its deadline (timeout, 0.05 in the
\* settle loop) or at the child's end of file.
WaitChars == {"a", PS1}

ExpectStep ==
    \/ ExpectFirstMatch
    \/ ExpectFirstTimeout
    \/ ExpectEOF
    \/ SettleMatch
    \/ SettleTimeout

NextWait ==
    \/ \E c \in WaitChars : ChildEmit(<<c>>)
    \/ SessionStep

SpecWait == Init /\ [][NextWait]_vars /\ WF_vars(ExpectStep)


InitM == IdleSession /\ InitMain /\ IdleTerm /\ IdleConcern /\ IdleRun

NextMain ==
    \/ \E u \in UnitChoices : LoadUnitFails(u)
    \/ \E u \in UnitChoices : LoadUnit(u)
    \/ LoadDone
    \/ \E sel \in SelectedChoices : GetAllowedLanguages(sel)
    \/ \E files \in FileLists, skip \in SUBSET {"f1"}, isdry, ff \in BOOLEAN :
          Setup(files, skip, isdry, ff)
    \/ DryFile
    \/ \E failed, aborted_or_crashed \in BOOLEAN :
          RunFile(failed, aborted_or_crashed)
    \/ Return

SpecMain == InitM /\ [][NextMain]_vars

InitT == IdleSession /\ IdleMain /\ InitTerm /\ IdleConcern /\ IdleRun

NextTerm ==
    \/ \E state, tc_error \in BOOLEAN : SetCookedMode(state, tc_error)
    \/ InteractBegin
    \/ \E send, raises \in BOOLEAN : PrimeSend(send, raises)
    \/ \E filter_raises \in BOOLEAN : SessionInput(filter_raises)
    \/ \E filter_raises \in BOOLEAN : SessionOutput(filter_raises)
    \/ ChildSetsRaw
    \/ SessionEnd
    \/ Restore

SpecTerm == InitT /\ [][NextTerm]_vars

InitC ==
    /\ IdleSession /\ IdleMain /\ py_major \in {2, 3} /\ IdleTty
    /\ InitConcern /\ IdleRun

NextConcern ==
    \/ MakeConcerns
    \/ \E o \in Observers, raises \in BOOLEAN : RegisterConcern(o, raises)
    \/ \E order \in UNION {Perms(S) : S \in SUBSET Observers} : Build(order)
    \/ \E method \in ConcernMethods, args \in ArgChoices : CompositeCall(method, args)
    \/ Invoke
    \/ FanOutReturn

SpecConcern == InitC /\ [][NextConcern]_vars

InitR == IdleSession /\ IdleMain /\ IdleTerm /\ IdleConcern /\ InitRun

NextRun ==
    \/ \E n \in 0..MaxExamples, ff \in BOOLEAN : RunStart(n, ff)
    \/ SkipExample
    \/ \E ff_overlay \in {"unset", "True", "False"}, pass \in BOOLEAN :
          StartExample(ff_overlay, pass)
    \/ InteractStart
    \/ InteractFinish
    \/ \E o \in Outcomes : ExampleOutcome(o)
    \/ EndRun

SpecRun == InitR /\ [][NextRun]_vars

----------------------------------------------------------------------------
\* Properties of the session

HasCRLF(s) == \E i \in 1..(Len(s) - 1) : s[i] = CR /\ s[i+1] = LF

\* C1 as stated: a non-empty text returned by _get_output ends with exactly
\* one line terminator (last character LF, the one before it not LF).
C1_ExactlyOneTerminator ==
    out # <<>> =>
        /\ out[Len(out)] = LF
        /\ Len(out) > 1 => out[Len(out) - 1] # LF

\* C1 amended: a non-empty text returned by _get_output ends with a line
\* terminator (its last character is LF); terminators already there are kept.
C1_EndsWithTerminator ==
    out # <<>> => out[Len(out)] = LF

\* C1 witness: a command whose output "a" had no terminator returned "a\n"
C1_Witness ==
    /\ pc = "idle" /\ last_op = "exec_and_wait"
    /\ seen = <<"a", PS1>>
    /\ out = <<"a", LF>>

\* C2 as stated: the text returned by _get_output holds no CR immediately
\* followed by LF.
C2_NoCRLF == ~HasCRLF(out)

\* the output expected of a call that was offered the stream s: the text
\* around the prompts, without continuation prompts, with uniform new lines
ExpectedOutput(s) ==
    LET body == SelectSeq(s, LAMBDA c : c # PS1)
        text == IF any_PS_re = "None" THEN body
                ELSE SelectSeq(body, LAMBDA c : c # PS2)
    IN  universal_new_lines(text)

\* C3: when the stream offered to one _exec_and_wait call ends with a prompt
\* (N >= 1 prompts, all within the settle windows, then silence), the call
\* returns one output, made of what last_output held followed by the text
\* before all the prompts, and leaves nothing of that stream behind: neither
\* in the reader's buffer nor in last_output.
C3_SettleSingleOutput ==
    (/\ pc = "idle" /\ last_op = "exec_and_wait"
     /\ seen # <<>> /\ seen[Len(seen)] = PS1)
    => /\ out = ExpectedOutput(held \o seen)
       /\ buffer = late
       /\ last_output = <<>>

\* C3 witness: "a" and two consecutive prompts, consumed by one call
C3_Witness ==
    /\ pc = "idle" /\ last_op = "exec_and_wait"
    /\ held = <<>>
    /\ seen = <<"a", PS1, PS1>>
    /\ matches = 2
    /\ out = <<"a", LF>>

\* _spawn_interpreter was called with wait_first_prompt and is in, or past,
\* its wait
SpawnWaited ==
    caller = "spawn" /\ (pc \in {"expect_first", "settle", "spawn_drop"} \/ waits >= 1)

\* C13: (a) when a spawn that waited for the first prompt has returned, a
\* prompt was seen, last_output is empty and what the reader still holds for
\* the next command is a part of the child's output that starts after the
\* first prompt, so nothing printed before it; (b) the first command's
\* output is made of what the reader held and read after that, nothing else;
\* (c) a spawn whose wait is over without any prompt has raised the stall
\* error, or EOF when the child is gone, and has not returned.
C13_SpawnDiscardsBanner ==
    /\ (SpawnWaited /\ pc = "idle") =>
          /\ HasPS1(seen)
          /\ last_output = <<>>
          /\ LET stream == seen \o late IN
               \E n \in FirstPS1(seen)..Len(stream) :
                  buffer = SubSeq(stream, n + 1, Len(stream))
    /\ (cmds = 1 /\ pc = "idle" /\ last_op = "exec_and_wait") =>
          held = <<>> /\ out = ExpectedOutput(seen)
    /\ (SpawnWaited /\ matches = 0 /\ pc # "expect_first") =>
          /\ pc = "raised"
          /\ exc.type \in {"TimeoutException", "EOF"}
          /\ exc.type = "TimeoutException" => exc.msg = LastChars(seen, TailLen)

\* C13 witness: the child printed a banner, a prompt and more; spawn has
\* returned with an empty last_output and the reader holds what came after
\* the prompt
C13_Witness ==
    /\ SpawnWaited /\ pc = "idle"
    /\ seen = <<"a", PS1, "a">>
    /\ last_output = <<>>
    /\ buffer = <<"a">>

\* a call of _expect_prompt is over: it returned or raised
CallOver == ~InWait /\ waits >= 1

\* the waits of one call of _expect_prompt: while it waits every wait so far
\* found a prompt, and once it is over exactly one wait did not
WaitsCount ==
    /\ InWait => waits = matches
    /\ CallOver => waits = matches + 1

\* C17 as stated: a call that is over without a prompt raised the stall
\* error, and a call that is over after a first prompt left the settle loop
\* by a wait that timed out.
C17_StallOrSettleTimeout ==
    /\ WaitsCount
    /\ (CallOver /\ matches = 0) =>
          pc = "raised" /\ exc.type = "TimeoutException"
    /\ (CallOver /\ matches >= 1) =>
          what = "Timeout" /\ exc = NoExc

\* C17 amended: every call of _expect_prompt ends, the child's prompts being
\* finitely many; it ends by the stall error (no prompt before the deadline),
\* by the settle-window wait that finds no further prompt, or by pexpect.EOF
\* raised by the wait that finds the child gone; it makes exactly one more
\* wait than the prompts it consumed and none after a wait that found none.
C17_ExpectPromptTerminates ==
    /\ [](/\ WaitsCount
          /\ (CallOver /\ matches = 0) =>
                pc = "raised" /\ exc.type \in {"TimeoutException", "EOF"}
          /\ (CallOver /\ matches >= 1) =>
                \/ what = "Timeout" /\ exc = NoExc
                \/ pc = "raised" /\ exc.type = "EOF"
          /\ (CallOver /\ exc.type = "EOF") => ~alive
          /\ (CallOver /\ exc.type = "TimeoutException") => matches = 0)
    /\ (InWait ~> ~InWait)

\* C17 witness: a call that consumed two prompts in three waits and returned
C17_Witness ==
    /\ pc = "idle" /\ last_op = "exec_and_wait"
    /\ matches = 2 /\ waits = 3
    /\ what = "Timeout" /\ exc = NoExc

\* C19: when _exec_and_wait or _get_output has returned last_output is
\* empty; a _get_output that finds it empty returns the empty string; and
\* _drop_output empties last_output and leaves the reader's buffer, the last
\* text read, the child and the rest of the session as they were.
C19_ReadCycleLeavesBufferEmpty ==
    /\ [](\/ last_op = "get_output" /\ pc \in {"idle", "raised"}
          \/ last_op = "exec_and_wait" /\ pc = "idle"
          => last_output = <<>>)
    /\ [][(GetOutput /\ last_output = <<>>) => out' = <<>>]_vars
    /\ [][DropOutput =>
            /\ last_output' = <<>>
            /\ UNCHANGED <<pc, caller, alive, any_PS_re, buffer, before, what, out,
                           exc, emitted, cmds>>]_vars

\* C19 witness: a command returned "a" and a line end, and the _get_output
\* that followed returned the empty string
C19_Witness ==
    /\ pc = "idle" /\ last_op = "get_output" /\ cmds = 1
    /\ seen = <<"a", PS1>> /\ matches = 1
    /\ out = <<>> /\ last_output = <<>>

\* C20 as stated: when a call of _exec_and_wait starts its wait, last_output
\* holds no text, whatever the earlier calls did.
C20_BufferEmptyAtCallStart ==
    (caller = "exec" /\ pc = "expect_first") => held = <<>>

\* C21 as stated: when _exec_and_wait has returned, nothing of what its
\* output was made of is left for a later output: last_output is empty and
\* the reader holds only what the child wrote after the call's last wait.
C21_EachByteInOneOutput ==
    (pc = "idle" /\ last_op = "exec_and_wait") =>
        last_output = <<>> /\ buffer = late

\* C4: when the first wait of _expect_prompt times out the call has raised
\* TimeoutException and not returned, and the message carries the last
\* min(TailLen, length) characters of the unconsumed output, empty or not.
C4_StallCarriesTail ==
    /\ (what = "Timeout" /\ waits >= 1 /\ matches = 0)
           => (pc = "raised" /\ exc.type = "TimeoutException")
    /\ exc.type = "TimeoutException" =>
           LET n == Len(exc.msg) IN
           /\ pc = "raised"
           /\ n = IF Len(seen) <= TailLen THEN Len(seen) ELSE TailLen
           /\ \A k \in 1..n : exc.msg[k] = seen[Len(seen) - n + k]

\* C4 witness: a stall with more than TailLen characters of unconsumed
\* output, whose first characters differ from its last ones
C4_Witness ==
    /\ pc = "raised" /\ exc.type = "TimeoutException"
    /\ Len(seen) > TailLen
    /\ seen[1] # seen[Len(seen)]

----------------------------------------------------------------------------
\* Properties of main and load_modules

\* the maximum severity over the files that were run
Severity(r) ==
    IF \E i \in 1..Len(r) : r[i].aborted_or_crashed THEN 2
    ELSE IF \E i \in 1..Len(r) : r[i].failed THEN 1
    ELSE 0

\* C5: all along the file loop and when main returns, exit_status is the
\* maximum severity over the files run so far (2 abort or crash, 1 failure,
\* 0 otherwise), whatever their order; hence it never decreases.
C5_ExitStatusIsMaxSeverity ==
    m_pc \in {"loop", "done"} => exit_status = Severity(ran)

\* C5 witness: main returned 2 after a file that aborted and then one that
\* only failed
C5_Witness ==
    /\ m_pc = "done"
    /\ Len(ran) = 2
    /\ ran[1].aborted_or_crashed /\ ~ran[1].failed
    /\ ran[2].failed /\ ~ran[2].aborted_or_crashed
    /\ exit_status = 2

\* the languages some registered interpreter or parser is indexed under
KnownLanguages == DOMAIN registry["interpreters"] \cup DOMAIN registry["parsers"]

\* C6: once get_allowed_languages has been called, either every requested
\* language is known and it returned exactly the requested set, or main was
\* left by ValueError with no file extracted, no file run and no exit status.
C6_UnknownLanguageFailsFirst ==
    (m_pc \in {"setup", "loop", "done"} \/ m_exc = "ValueError") =>
        IF ToSet(selected) \subseteq KnownLanguages
        THEN /\ m_exc = "none"
             /\ allowed_languages = ToSet(selected)
        ELSE /\ m_pc = "raised" /\ m_exc = "ValueError"
             /\ extracted = <<>> /\ ran = <<>>
             /\ exit_status = -1

\* C6 witness: one known and one unknown language were requested
C6_Witness ==
    /\ m_exc = "ValueError"
    /\ selected = <<"python", "cobol">>
    /\ "python" \in KnownLanguages

\* C7 as stated: load_modules is never left by an exception, whatever goes
\* wrong with a unit.
C7_DiscoveryNeverFatal == ~(m_pc = "raised" /\ m_exc = "Exception")

\* C14 as stated: no class object is instantiated more than once during
\* discovery.
C14_InstantiatedAtMostOnce == \A k \in KlassNames : created[k] <= 1

\* the classes of a kind with an identity value instantiated from unit i
Discovered(i, kind, key) ==
    {k \in disc[i] : Klass[k].base = kind /\ Klass[k].key = key}

\* C15: every identity value some instantiated class of a kind carries is in
\* the kind's mapping, and what it maps to is one instance: the newest
\* instance of a class of the last unit that brought a class with that
\* identity value; the earlier ones are gone without an error.
C15_LastDiscoveredWins ==
    \A kind \in DOMAIN registry :
       /\ \A key \in DOMAIN registry[kind] :
             LET from == {i \in 1..Len(disc) : Discovered(i, kind, key) # {}}
                 obj == registry[kind][key]
             IN  /\ from # {}
                 /\ \E i \in from :
                       /\ \A j \in from : j <= i
                       /\ obj.klass \in Discovered(i, kind, key)
                 /\ obj.n = created[obj.klass]
       /\ \A i \in 1..Len(disc) : \A k \in disc[i] :
             Klass[k].base = kind => Klass[k].key \in DOMAIN registry[kind]

\* C15 witness: two units, each with its own class for "python"; the mapping
\* holds the instance of the second unit's class and discovery went on
C15_Witness ==
    /\ m_pc = "loaded" /\ m_exc = "none"
    /\ disc = <<{"PyInterp"}, {"PyInterpB"}>>
    /\ registry["interpreters"]["python"] = [klass |-> "PyInterpB", n |-> 1]

FilesOf(r) == [i \in 1..Len(r) |-> r[i].file]

NotPassed(r) == r.failed \/ r.aborted_or_crashed

\* the part of C12 that does not depend on --dry: the files are taken in
\* command-line order, and under FAIL_FAST a file that failed, aborted or
\* crashed is the last one extracted and run, main is over, and the exit
\* status is that file's severity
FileLoopOrder ==
    m_pc \in {"loop", "done"} =>
       /\ extracted = SubSeq(testfiles, 1, Len(extracted))
       /\ FilesOf(ran) = IF dry THEN <<>> ELSE extracted
       /\ fail_fast =>
             \A i \in 1..Len(ran) :
                NotPassed(ran[i]) =>
                   /\ i = Len(ran) /\ Len(extracted) = i
                   /\ m_pc = "done"
                   /\ exit_status = Severity(<<ran[i]>>)

\* C12 as stated: the above, and without FAIL_FAST every non-skipped file
\* has been run when main returns.
C12_EveryFileRunWithoutFailFast ==
    /\ FileLoopOrder
    /\ (m_pc = "done" /\ ~fail_fast) => FilesOf(ran) = testfiles

\* C12 amended: the above, and when main returns without FAIL_FAST every
\* non-skipped file has been extracted, and has been run unless --dry was
\* given, in which case no file is run.
C12_FailFastStopsFiles ==
    /\ FileLoopOrder
    /\ (m_pc = "done" /\ ~fail_fast) =>
          /\ extracted = testfiles
          /\ FilesOf(ran) = IF dry THEN <<>> ELSE testfiles

\* C12 witness: under FAIL_FAST the first of two different files failed and
\* main returned 1 without extracting the second
C12_Witness ==
    /\ m_pc = "done" /\ fail_fast /\ ~dry
    /\ testfiles = <<"f2", "f1">>
    /\ extracted = <<"f2">>
    /\ Len(ran) = 1 /\ ran[1].failed /\ ~ran[1].aborted_or_crashed
    /\ exit_status = 1

----------------------------------------------------------------------------
\* Properties of the terminal

\* C8: when interact() has ended, by a normal return or by an exception of
\* the priming send, of the session or of a filter, the child terminal's
\* attributes are those it had when interact() was entered.
C8_InteractRestoresAttributes ==
    t_pc = "done" => tty = entry_tty

\* C8 witness: interact() left by an exception after cooked mode was forced
\* twice on a terminal that was not in cooked mode when it was entered
C8_Witness ==
    /\ t_pc = "done"
    /\ t_exc = "FilterError"
    /\ forced = 2
    /\ entry_tty.lflag = {}
    /\ tty = entry_tty

\* a step that is one call of set_cooked_mode, by an interpreter or by the
\* input filter of interact()
CookedModeCall ==
    \/ \E state, tc_error \in BOOLEAN : SetCookedMode(state, tc_error)
    \/ \E filter_raises \in BOOLEAN : SessionInput(filter_raises)

\* attributes a and b differ at most in the flags of the three groups
SameButCurated(a, b) ==
    /\ a.iflag \ input_flags = b.iflag \ input_flags
    /\ a.oflag \ output_flags = b.oflag \ output_flags
    /\ a.lflag \ local_flags = b.lflag \ local_flags
    /\ a.cflag = b.cflag
    /\ a.ispeed = b.ispeed /\ a.ospeed = b.ospeed
    /\ a.cc = b.cc

\* C22: a call of set_cooked_mode, with either argument, from any terminal
\* state, whether it returns or raises, leaves every flag outside the three
\* groups, the control flags, the speeds and the control characters as they
\* were; hence after a sequence of such calls the terminal differs from the
\* state the sequence started in at most in the flags of the three groups.
C22_OnlyCuratedFlagsChange ==
    /\ [][CookedModeCall => SameButCurated(tty, tty')]_vars
    /\ []((t_pc = "idle" /\ forced = 0) => SameButCurated(entry_tty, tty))

\* C22 witness: set_cooked_mode(False) returned on a terminal that had every
\* flag set: the flags of the groups are cleared, the others are still set
C22_Witness ==
    /\ t_pc = "idle" /\ forced = 0 /\ t_exc = "none"
    /\ t_call = [called |-> TRUE, state |-> FALSE, tc_error |-> FALSE]
    /\ entry_tty.iflag = IFlags /\ entry_tty.oflag = OFlags
    /\ entry_tty.lflag = LFlags
    /\ tty = [entry_tty EXCEPT !.iflag = {"IGNBRK"}, !.oflag = {"ONLCR"},
                               !.lflag = {"ECHOE"}]

\* C16 as stated: after set_cooked_mode(True), called on a terminal whose
\* attributes can be read, every flag of the three groups is set, and after
\* set_cooked_mode(False) every one of them is cleared, whatever the
\* attributes were and whatever calls came before.
C16_CookedModeSetsOrClearsAll ==
    (t_pc = "idle" /\ t_call.called /\ ~t_call.tc_error) =>
        IF t_call.state
        THEN /\ input_flags \subseteq tty.iflag
             /\ output_flags \subseteq tty.oflag
             /\ local_flags \subseteq tty.lflag
        ELSE /\ tty.iflag \cap input_flags = {}
             /\ tty.oflag \cap output_flags = {}
             /\ tty.lflag \cap local_flags = {}

----------------------------------------------------------------------------
\* Properties of the concern composite

\* C9 as stated: one call of a lifecycle method on the ConcernComposite that
\* has returned has invoked that method, with the same arguments, exactly
\* once on every registered observer, in registration order, and returned
\* no value.
C9_FanOutInRegistrationOrder ==
    (c_pc = "returned" /\ c_method \in LifecycleMethods) =>
        /\ c_ret = "None"
        /\ calls = [i \in 1..Len(registered) |->
                      [observer |-> registered[i], method |-> c_method,
                       args |-> c_args]]

----------------------------------------------------------------------------
\* Properties of the run of one file

TerminalEvents == {"user_aborted", "crashed", "success", "failure"}

\* the state of the lifecycle after event e in state q; "bad" when e is not
\* allowed there.  q is <<phase, example>>: phase is init, between (examples),
\* example (started, not ended), interact, ended; example is the index of the
\* last example an event was fired for.
LifecycleStep(q, e) ==
    LET phase == q[1]
        last  == q[2]
    IN  CASE phase = "init" /\ e.ev = "start_run" -> <<"between", 0>>
          [] phase = "between" /\ e.ev = "skip_example" /\ e.example > last
                -> <<"between", e.example>>
          [] phase = "between" /\ e.ev = "start_example" /\ e.example > last
                -> <<"example", e.example>>
          [] phase = "example" /\ e.ev = "start_interact" /\ e.example = last
                -> <<"interact", last>>
          [] phase = "interact" /\ e.ev = "finish_interact" /\ e.example = last
                -> <<"example", last>>
          [] phase = "example" /\ e.ev \in TerminalEvents /\ e.example = last
                -> <<"between", last>>
          [] phase = "between" /\ e.ev = "end_run" -> <<"ended", last>>
          [] OTHER -> <<"bad", last>>

RECURSIVE Lifecycle(_, _)
Lifecycle(q, es) ==
    IF es = <<>> THEN q ELSE Lifecycle(LifecycleStep(q, Head(es)), Tail(es))

\* C10: the events of a run follow the lifecycle order (start_run first; per
\* example one skip_example, or start_example, start_interact/finish_interact
\* pairs and exactly one of user_aborted, crashed, success, failure; nothing
\* after end_run), and a run that has returned has fired end_run, once.
C10_LifecycleOrder ==
    LET q == Lifecycle(<<"init", 0>>, events) IN
    /\ q[1] # "bad"
    /\ r_pc = "returned" => q[1] = "ended"

\* C10 witness: a run that skipped an example, had an interactive session in
\* the next one and ended on its crash
C10_Witness ==
    /\ r_pc = "returned"
    /\ events = <<Event("start_run", 0), Event("skip_example", 1),
                  Event("start_example", 2), Event("start_interact", 2),
                  Event("finish_interact", 2), Event("crashed", 2),
                  Event("end_run", 0)>>

EventsOf(names) == {i \in 1..Len(events) : events[i].ev \in names}

\* C11: when example k failed under a merged FAIL_FAST, the composite got no
\* start_example and no skip_example for an example after k, and the result
\* of a returned run tells what the examples that ran did: failed iff a
\* failure was fired, aborted_or_crashed iff user_aborted or crashed was.
C11_FailFastStopsFile ==
    /\ \A i \in EventsOf({"failure"}) :
          events[i].example \in r_ffk =>
             \A j \in EventsOf({"start_example", "skip_example"}) :
                events[j].example <= events[i].example
    /\ r_pc = "returned" =>
          r_result = << EventsOf({"failure"}) # {},
                        EventsOf({"user_aborted", "crashed"}) # {} >>

\* C11 witness: a file of two examples whose first example failed under
\* FAIL_FAST; the run returned without touching the second
C11_Witness ==
    /\ r_pc = "returned"
    /\ r_n = 2
    /\ 1 \in r_ffk
    /\ events = <<Event("start_run", 0), Event("start_example", 1),
                  Event("failure", 1), Event("end_run", 0)>>
    /\ r_result = <<TRUE, FALSE>>

====
